---- MODULE Spec2Model ----
(***************************************************************************)
(* Model of the graph/JSON converter (src/utils/graphDataConverter.ts),    *)
(* the AI service stub (src/services/aiService.ts) and the handlers of the *)
(* Toolbar and DrawingCanvas components (src/components/DrawingCanvas.tsx).*)
(*                                                                         *)
(* JavaScript strings that the code splits, trims or parses are sequences  *)
(* of one-character strings; identifiers and labels the code only copies   *)
(* are TLA+ strings.  A missing property (undefined) is the value Undef.   *)
(*                                                                         *)
(* The diagram widget is an external library.  It is modelled by the       *)
(* contract the converter relies on: the cells of the diagram are the      *)
(* children of the model root, which is also the default parent.           *)
(***************************************************************************)
EXTENDS Integers, Sequences, FiniteSets, TLC

\* ------------------------------------------------------------ bounds
MaxSegs == 2
MaxCells == 3
MaxCalls == 2
MaxMounts == 2
MaxEdits == 1

\* ------------------------------------------------------------ JS values
Undef == "undefined"

\* An undefined value where a character string is expected.
UndefStr == <<"undefined">>

\* const x = e; F(x): e is evaluated once and F reads its value.
Let(e, F(_)) == CHOOSE y \in {F(x) : x \in {e}} : TRUE

\* An optional object property: absent, or present with a value.
None == <<>>
Some(x) == <<x>>

\* One-character strings used in style strings.
Eq == "="
Semi == ";"
Sp == " "
Digits == {"0", "1", "2", "3", "4", "5", "6", "7", "8", "9"}

\* A style value: its JS type and the characters of String(value).
Val(t, s) == [t |-> t, s |-> s]
UndefVal == Val("undefined", <<>>)

RECURSIVE Join(_, _)
Join(parts, sep) ==
  IF Len(parts) = 0 THEN <<>>
  ELSE IF Len(parts) = 1 THEN parts[1]
  ELSE parts[1] \o <<sep>> \o Join(Tail(parts), sep)

\* String.prototype.split(ch): the pieces between the occurrences of ch.
RECURSIVE Split(_, _)
Split(s, ch) ==
  IF \A i \in 1..Len(s) : s[i] # ch THEN <<s>>
  ELSE LET i == CHOOSE j \in 1..Len(s) :
                  s[j] = ch /\ \A k \in 1..(j - 1) : s[k] # ch
       IN  <<SubSeq(s, 1, i - 1)>> \o Split(SubSeq(s, i + 1, Len(s)), ch)

\* String.prototype.trim()
RECURSIVE TrimLeft(_)
TrimLeft(s) == IF Len(s) > 0 /\ s[1] = Sp THEN TrimLeft(Tail(s)) ELSE s

RECURSIVE TrimRight(_)
TrimRight(s) ==
  IF Len(s) > 0 /\ s[Len(s)] = Sp THEN TrimRight(SubSeq(s, 1, Len(s) - 1)) ELSE s

Trim(s) == TrimRight(TrimLeft(s))

\* Number(value) for the spellings of the alphabet: the empty string is 0 and a
\* string of decimal digits is its value; anything else is NaN.
IsNumeric(s) == \A i \in 1..Len(s) : s[i] \in Digits

\* String(Number(s)): the canonical decimal spelling (no leading zeros).
RECURSIVE Canonical(_)
Canonical(s) ==
  IF Len(s) = 0 THEN <<"0">>
  ELSE IF Len(s) > 1 /\ s[1] = "0" THEN Canonical(Tail(s))
  ELSE s

TrueStr == <<"t", "r", "u", "e">>
FalseStr == <<"f", "a", "l", "s", "e">>

parseStyleValue(value) ==
  IF value = TrueStr THEN Val("boolean", TrueStr)
  ELSE IF value = FalseStr THEN Val("boolean", FalseStr)
  ELSE IF IsNumeric(value) THEN Val("number", Canonical(value))
  ELSE Val("string", value)

\* style[key] = value on a plain object: a sequence of entries in insertion
\* order; assigning an existing key replaces its value in place.
SetKey(style, key, value) ==
  IF \E i \in 1..Len(style) : style[i].k = key
  THEN [i \in 1..Len(style) |->
          IF style[i].k = key THEN [k |-> key, v |-> value] ELSE style[i]]
  ELSE Append(style, [k |-> key, v |-> value])

\* const [key, value] = part.split('='): the first two pieces.
SegKey(part) == Split(part, Eq)[1]
SegValue(part) ==
  LET pieces == Split(part, Eq) IN IF Len(pieces) >= 2 THEN pieces[2] ELSE UndefStr

\* key && value: both defined and non-empty.
Truthy(s) == s # UndefStr /\ s # <<>>

RECURSIVE parseParts(_, _)
parseParts(parts, style) ==
  IF Len(parts) = 0 THEN style
  ELSE LET key == SegKey(parts[1])
           value == SegValue(parts[1])
           next == IF Truthy(key) /\ Truthy(value)
                   THEN SetKey(style, Trim(key), parseStyleValue(Trim(value)))
                   ELSE style
       IN  parseParts(Tail(parts), next)

parseStyle(styleStr) ==
  IF styleStr = <<>> THEN <<>> ELSE parseParts(Split(styleStr, Semi), <<>>)

\* formatEntry with the test written as `if (value)`.
formatEntryDropFalsy(e) ==
  IF \/ e.v.t \in {"undefined", "null"}
     \/ e.v = Val("boolean", FalseStr)
     \/ e.v = Val("number", <<"0">>)
     \/ e.v = Val("string", <<>>)
  THEN <<>>
  ELSE <<e.k \o <<Eq>> \o e.v.s>>

\* One entry of Object.entries(style): skipped when undefined or null.
formatEntry(e) ==
  IF e.v.t \in {"undefined", "null"} THEN <<>> ELSE <<e.k \o <<Eq>> \o e.v.s>>

RECURSIVE formatParts(_)
formatParts(style) ==
  IF Len(style) = 0 THEN <<>>
  ELSE formatEntry(style[1]) \o formatParts(Tail(style))

formatStyle(style) == Join(formatParts(style), Semi)

\* A style object as a mapping: its set of entries.
Mapping(style) == {style[i] : i \in 1..Len(style)}

\* ------------------------------------------------------------ documents
Geo(x, y, w, h) == [x |-> x, y |-> y, width |-> w, height |-> h]
ZeroGeo == Geo(0, 0, 0, 0)

\* The id of the default parent, as cell.getParent().getId() reports it.
DefaultParentId == "1"

\* A GraphCell of a Document.  geometry and style are optional only in
\* values that do not follow the GraphCell interface.
GraphCell(id, type, value, geometry, style, source, target, parent) ==
  [id |-> id, type |-> type, value |-> value, geometry |-> geometry,
   style |-> style, source |-> source, target |-> target, parent |-> parent]

Viewport(scale, translate) == [scale |-> scale, translate |-> translate]
Translate(x, y) == [x |-> x, y |-> y]

\* A GraphData value: cells is None when the property is missing.
GraphData(cells, viewport) == [cells |-> cells, viewport |-> viewport]

\* ------------------------------------------------------------ live model
\* An mxCell under the default parent.  source and target are handles:
\* positions in the children of the default parent, 0 when unconnected.
MxCell(id, vertex, value, geometry, style, source, target) ==
  [id |-> id, vertex |-> vertex, edge |-> ~vertex, value |-> value,
   geometry |-> geometry, style |-> style, source |-> source, target |-> target]

\* What an id-map lookup can yield besides a cell handle (a position >= 1).
NoHandle == 0
Inherited == -1

\* The graph with its model and view: children of the root, view state,
\* the model's updateLevel, whether the current edit holds a change, and the
\* Documents the change listener has handed to onGraphChange.
Graph(children, view, level, dirty, notes) ==
  [children |-> children, view |-> view, level |-> level, dirty |-> dirty,
   notes |-> notes]

DefaultView == [scale |-> 1, x |-> 0, y |-> 0]

\* The style strings of addSampleDiagram.
StartStyle ==
  "shape=ellipse;fillColor=#90EE90;strokeColor=#333;fontSize=12;fontStyle=1"
ProcessStyle == "rounded=1;fillColor=#87CEEB;strokeColor=#333;fontSize=12"
DecisionStyle == "shape=diamond;fillColor=#FFD700;strokeColor=#333;fontSize=12"
EndStyle ==
  "shape=ellipse;fillColor=#FFA07A;strokeColor=#333;fontSize=12;fontStyle=1"
FlowStyle == "edgeStyle=orthogonalEdgeStyle;rounded=1;fontSize=10"

\* The style strings a cell of the live model can carry.  A cell holds its
\* style string whole; Chars gives its characters and StringOf the string of
\* given characters.
CellStyles ==
  { "",
    "k=x",
    "n=12",
    StartStyle,
    ProcessStyle,
    DecisionStyle,
    EndStyle,
    FlowStyle }

Chars(str) ==
  CASE str = "" ->
      <<>>
    [] str = "k=x" ->
      <<"k", "=", "x">>
    [] str = "n=12" ->
      <<"n", "=", "1", "2">>
    [] str = StartStyle ->
      <<"s", "h", "a", "p", "e", "=", "e", "l", "l", "i", "p", "s", "e", ";",
        "f", "i", "l", "l", "C", "o", "l", "o", "r", "=", "#", "9", "0", "E",
        "E", "9", "0", ";", "s", "t", "r", "o", "k", "e", "C", "o", "l", "o",
        "r", "=", "#", "3", "3", "3", ";", "f", "o", "n", "t", "S", "i", "z",
        "e", "=", "1", "2", ";", "f", "o", "n", "t", "S", "t", "y", "l", "e",
        "=", "1">>
    [] str = ProcessStyle ->
      <<"r", "o", "u", "n", "d", "e", "d", "=", "1", ";", "f", "i", "l", "l",
        "C", "o", "l", "o", "r", "=", "#", "8", "7", "C", "E", "E", "B", ";",
        "s", "t", "r", "o", "k", "e", "C", "o", "l", "o", "r", "=", "#", "3",
        "3", "3", ";", "f", "o", "n", "t", "S", "i", "z", "e", "=", "1", "2">>
    [] str = DecisionStyle ->
      <<"s", "h", "a", "p", "e", "=", "d", "i", "a", "m", "o", "n", "d", ";",
        "f", "i", "l", "l", "C", "o", "l", "o", "r", "=", "#", "F", "F", "D",
        "7", "0", "0", ";", "s", "t", "r", "o", "k", "e", "C", "o", "l", "o",
        "r", "=", "#", "3", "3", "3", ";", "f", "o", "n", "t", "S", "i", "z",
        "e", "=", "1", "2">>
    [] str = EndStyle ->
      <<"s", "h", "a", "p", "e", "=", "e", "l", "l", "i", "p", "s", "e", ";",
        "f", "i", "l", "l", "C", "o", "l", "o", "r", "=", "#", "F", "F", "A",
        "0", "7", "A", ";", "s", "t", "r", "o", "k", "e", "C", "o", "l", "o",
        "r", "=", "#", "3", "3", "3", ";", "f", "o", "n", "t", "S", "i", "z",
        "e", "=", "1", "2", ";", "f", "o", "n", "t", "S", "t", "y", "l", "e",
        "=", "1">>
    [] str = FlowStyle ->
      <<"e", "d", "g", "e", "S", "t", "y", "l", "e", "=", "o", "r", "t", "h",
        "o", "g", "o", "n", "a", "l", "E", "d", "g", "e", "S", "t", "y", "l",
        "e", ";", "r", "o", "u", "n", "d", "e", "d", "=", "1", ";", "f", "o",
        "n", "t", "S", "i", "z", "e", "=", "1", "0">>

StringOf(chars) == CHOOSE str \in CellStyles : Chars(str) = chars

cellToJSON(cell, children) ==
  IF ~cell.edge /\ ~cell.vertex THEN <<>>
  ELSE <<GraphCell(
           cell.id,
           IF cell.edge THEN "edge" ELSE "vertex",
           cell.value,
           IF cell.geometry # None THEN cell.geometry ELSE Some(ZeroGeo),
           Some(parseStyle(Chars(cell.style))),
           IF cell.edge /\ cell.source >= 1 /\ children[cell.source].id # ""
             THEN children[cell.source].id ELSE Undef,
           IF cell.edge /\ cell.target >= 1 /\ children[cell.target].id # ""
             THEN children[cell.target].id ELSE Undef,
           DefaultParentId)>>

RECURSIVE cellsToJSON(_, _)
cellsToJSON(cells, children) ==
  IF Len(cells) = 0 THEN <<>>
  ELSE cellToJSON(cells[1], children) \o cellsToJSON(Tail(cells), children)

exportGraphToJSON(g) ==
  GraphData(Some(cellsToJSON(g.children, g.children)),
            Some(Viewport(g.view.scale, Some(Translate(g.view.x, g.view.y)))))

\* The 'change' listener of DrawingCanvas: export and call onGraphChange.
changeListener(g) ==
  Let(g, LAMBDA graph : [graph EXCEPT !.notes = Append(@, exportGraphToJSON(graph))])

beginUpdate(g) == [g EXCEPT !.level = @ + 1]

\* The change event is dispatched when the outermost update ends and the
\* edit holds at least one change.
endUpdate(g) ==
  Let([g EXCEPT !.level = @ - 1],
      LAMBDA g1 : IF g1.level = 0 /\ g1.dirty
                  THEN changeListener([g1 EXCEPT !.dirty = FALSE])
                  ELSE g1)

\* graph.removeCells(root.children.slice()): its own update scope.
removeCells(g) ==
  Let(beginUpdate(g),
      LAMBDA g1 : endUpdate([g1 EXCEPT !.children = <<>>,
                                       !.dirty = @ \/ Len(g1.children) > 0]))

\* graph.insertVertex / graph.insertEdge: add the cell under the default
\* parent inside their own update scope.
addCell(g, cell) ==
  endUpdate([beginUpdate(g) EXCEPT !.children = Append(@, cell), !.dirty = TRUE])

\* The result of a step that may throw.
Ok(g) == [g |-> g, err |-> "none"]
Thrown(g) == [g |-> g, err |-> "TypeError"]

\* insertVertex of the converter: formatStyle(cellData.style) and the reads
\* of cellData.geometry throw on a missing style or geometry.
insertVertex(g, cellData) ==
  IF cellData.style = None \/ cellData.geometry = None THEN Thrown(g)
  ELSE Ok(addCell(g, MxCell(cellData.id, TRUE, cellData.value, cellData.geometry,
                            StringOf(formatStyle(cellData.style[1])), NoHandle, NoHandle)))

\* insertEdge of the converter.  The widget adds the edge and then connects
\* the terminals; connecting a value that is not a cell throws.
insertEdge(g, cellData, source, target) ==
  IF cellData.style = None THEN Thrown(g)
  ELSE LET edge(s, t) == MxCell(cellData.id, FALSE, cellData.value, Some(ZeroGeo),
                                StringOf(formatStyle(cellData.style[1])), s, t)
       IN  IF source = Inherited THEN Thrown(addCell(g, edge(NoHandle, NoHandle)))
           ELSE IF target = Inherited THEN Thrown(addCell(g, edge(source, NoHandle)))
           ELSE Ok(addCell(g, edge(source, target)))

\* Property names every plain object inherits from Object.prototype.
ObjectPrototypeKeys == {"constructor", "toString"}

\* idMap[key] on the plain object idMap.
IdMapGet(idMap, key) ==
  IF key \in DOMAIN idMap THEN idMap[key]
  ELSE IF key \in ObjectPrototypeKeys THEN Inherited
  ELSE NoHandle

IdMapSet(idMap, key, h) ==
  Let(idMap, LAMBDA m : [k \in DOMAIN m \cup {key} |-> IF k = key THEN h ELSE m[k]])

EmptyMap == [k \in {} |-> NoHandle]

\* cellData.source && cellData.target on optional strings.
TruthyId(id) == id # Undef /\ id # ""

\* First pass: every vertex of data.cells, in array order.
RECURSIVE vertexPass(_, _, _)
vertexPass(g, cells, idMap) ==
  IF Len(cells) = 0 THEN [g |-> g, err |-> "none", idMap |-> idMap]
  ELSE IF cells[1].type = "vertex"
       THEN Let(insertVertex(g, cells[1]),
                LAMBDA r :
                  IF r.err # "none" THEN [g |-> r.g, err |-> r.err, idMap |-> idMap]
                  ELSE vertexPass(r.g, Tail(cells),
                                  IdMapSet(idMap, cells[1].id, Len(r.g.children))))
       ELSE vertexPass(g, Tail(cells), idMap)

\* Second pass: every edge with a source and a target that the id map resolves.
RECURSIVE edgePass(_, _, _)
edgePass(g, cells, idMap) ==
  IF Len(cells) = 0 THEN Ok(g)
  ELSE IF /\ cells[1].type = "edge"
          /\ TruthyId(cells[1].source) /\ TruthyId(cells[1].target)
          /\ IdMapGet(idMap, cells[1].source) # NoHandle
          /\ IdMapGet(idMap, cells[1].target) # NoHandle
       THEN Let(insertEdge(g, cells[1], IdMapGet(idMap, cells[1].source),
                           IdMapGet(idMap, cells[1].target)),
                LAMBDA r : IF r.err # "none" THEN r
                           ELSE edgePass(r.g, Tail(cells), idMap))
       ELSE edgePass(g, Tail(cells), idMap)

\* Restore the viewport: setScale, then setTranslate(translate.x, translate.y).
restoreViewport(g, data) ==
  IF data.viewport = None THEN Ok(g)
  ELSE LET vp == data.viewport[1]
       IN  Let([g EXCEPT !.view.scale = vp.scale],
               LAMBDA g1 : IF vp.translate = None THEN Thrown(g1)
                           ELSE Ok([g1 EXCEPT !.view.x = vp.translate[1].x,
                                              !.view.y = vp.translate[1].y]))

\* The try block of importGraphFromJSON.
importBody(g, data, clearExisting) ==
  Let(IF clearExisting THEN removeCells(g) ELSE g,
      LAMBDA g1 :
        IF data.cells = None THEN Thrown(g1)
        ELSE Let(vertexPass(g1, data.cells[1], EmptyMap),
                 LAMBDA p1 :
                   IF p1.err # "none" THEN [g |-> p1.g, err |-> p1.err]
                   ELSE Let(edgePass(p1.g, data.cells[1], p1.idMap),
                            LAMBDA p2 : IF p2.err # "none" THEN p2
                                        ELSE restoreViewport(p2.g, data))))

\* importGraphFromJSON without its own update scope.
importGraphFromJSONNoScope(g, data, clearExisting) ==
  Let(importBody(g, data, clearExisting),
      LAMBDA r : [g |-> r.g, err |-> r.err, begins |-> 0, ends |-> 0])

\* importGraphFromJSON with endUpdate on the normal path only.
importGraphFromJSONNoFinally(g, data, clearExisting) ==
  Let(importBody(beginUpdate(g), data, clearExisting),
      LAMBDA r : IF r.err = "none"
                 THEN [g |-> endUpdate(r.g), err |-> r.err, begins |-> 1, ends |-> 1]
                 ELSE [g |-> r.g, err |-> r.err, begins |-> 1, ends |-> 0])

\* importGraphFromJSON: beginUpdate, the try block, endUpdate in finally.
\* begins and ends count the calls made at lines 162 and 200.
importGraphFromJSON(g, data, clearExisting) ==
  Let(importBody(beginUpdate(g), data, clearExisting),
      LAMBDA r : [g |-> endUpdate(r.g), err |-> r.err, begins |-> 1, ends |-> 1])

\* ------------------------------------------------------------ inputs
\* Style-string segments: well-formed ones, and ones that lack a key or a
\* value, carry blanks, or carry a second '='.
StyleSegs ==
  { <<"k", "=", "x">>,
    <<"k", "=", "t", "r", "u", "e">>,
    <<"k", "=", "f", "a", "l", "s", "e">>,
    <<"n", "=", "1", "2">>,
    <<"n", "=", "0", "1">>,
    <<"a", "=", "0">>,
    <<"k", "=", "a", "=", "b">>,
    <<"k", "=">>,
    <<"=", "x">>,
    <<"k">>,
    <<>>,
    <<" ", "k", " ", "=", " ", "x", " ">>,
    <<" ", "=", "x">>,
    <<"k", "=", " ">> }

RECURSIVE SeqsUpTo(_, _)
SeqsUpTo(S, n) ==
  IF n = 0 THEN {<<>>}
  ELSE LET shorter == SeqsUpTo(S, n - 1)
       IN  shorter \cup {Append(q, x) : q \in shorter, x \in S}

StyleStrings == {Join(q, Semi) : q \in SeqsUpTo(StyleSegs, MaxSegs) \ {<<>>}}

StyleOf(k, t, v) == Some(<<[k |-> <<k>>, v |-> Val(t, v)]>>)
NoStyle == Some(<<>>)

G1 == Geo(0, 0, 100, 40)
G2 == Geo(200, 0, 100, 40)

VA == GraphCell("a", "vertex", "Start", Some(G1), StyleOf("k", "string", <<"x">>),
                Undef, Undef, DefaultParentId)
VB == GraphCell("b", "vertex", "End", Some(G2), NoStyle, Undef, Undef, DefaultParentId)
\* a clean edge, as the widget exports it
E1 == GraphCell("e1", "edge", "", Some(ZeroGeo), NoStyle, "a", "b", DefaultParentId)
\* a target no cell carries
E2 == GraphCell("e2", "edge", "", Some(ZeroGeo), NoStyle, "a", "z", DefaultParentId)
\* a source no cell carries, spelled like an inherited property
E3 == GraphCell("e3", "edge", "", Some(ZeroGeo), NoStyle, "constructor", "a",
                DefaultParentId)
\* no source
E4 == GraphCell("e4", "edge", "", Some(ZeroGeo), NoStyle, Undef, "b", DefaultParentId)
\* a source that is the id of an edge
E5 == GraphCell("e5", "edge", "", Some(ZeroGeo), NoStyle, "e1", "a", DefaultParentId)
\* an edge with a bounding box, a string that spells a number, and no parent
E6 == GraphCell("e6", "edge", "No", Some(G1), StyleOf("n", "string", <<"1", "2">>),
                "b", "a", Undef)
\* a loop on one vertex
E8 == GraphCell("e8", "edge", "loop", Some(ZeroGeo), NoStyle, "a", "a", DefaultParentId)
\* values that do not follow the GraphCell interface
VBad == GraphCell("d", "vertex", "Bad", None, NoStyle, Undef, Undef, Undef)
EBad == GraphCell("e7", "edge", "", Some(ZeroGeo), None, "a", "b", Undef)

ValidCells == {VA, VB, E1, E2, E3, E4, E5, E6, E8}

UniqueIds(cells) ==
  \A i, j \in 1..Len(cells) : i # j => cells[i].id # cells[j].id

CellSeqs == {q \in SeqsUpTo(ValidCells, MaxCells) : UniqueIds(q)}

VP1 == Some(Viewport(2, Some(Translate(10, 20))))
VPBad == Some(Viewport(2, None))

\* Documents that follow the GraphData interface.
ValidDocs == {GraphData(Some(q), vp) : q \in CellSeqs, vp \in {None, VP1}}

\* Parsed JSON values that do not.
BadDocs ==
  { GraphData(None, None),
    GraphData(Some(<<VA, VBad, VB>>), VP1),
    GraphData(Some(<<VA, VB, E1, EBad>>), None),
    GraphData(Some(<<E1, VB, VA>>), VPBad) }

ConvDocs == ValidDocs \cup BadDocs

\* Cells a graph may hold before an import: two vertices and an edge drawn
\* in the editor, with generated ids.
PriorChildren ==
  << MxCell("2", TRUE, "P", Some(G1), "k=x", NoHandle, NoHandle),
     MxCell("3", TRUE, "Q", Some(G2), "", NoHandle, NoHandle),
     MxCell("4", FALSE, "", Some(ZeroGeo), "", 1, 2) >>

\* ------------------------------------------------------------ sample diagram
\* The graph after addSampleDiagram: four vertices and four edges, with the
\* ids the model generates for a null id.
SampleChildren ==
  << MxCell("2", TRUE, "Start", Some(Geo(20, 20, 100, 60)), StartStyle, NoHandle, NoHandle),
     MxCell("3", TRUE, "Process", Some(Geo(200, 20, 100, 60)), ProcessStyle, NoHandle, NoHandle),
     MxCell("4", TRUE, "Decision", Some(Geo(380, 20, 100, 60)), DecisionStyle, NoHandle, NoHandle),
     MxCell("5", TRUE, "End", Some(Geo(560, 20, 100, 60)), EndStyle, NoHandle, NoHandle),
     MxCell("6", FALSE, "Start Flow", Some(ZeroGeo), FlowStyle, 1, 2),
     MxCell("7", FALSE, "Process Flow", Some(ZeroGeo), FlowStyle, 2, 3),
     MxCell("8", FALSE, "Yes", Some(ZeroGeo), FlowStyle, 3, 4),
     MxCell("9", FALSE, "No", Some(ZeroGeo), FlowStyle, 3, 2) >>

\* new window.mxGraph(container): no cells, the default view, no open edit.
NewGraph == Graph(<<>>, DefaultView, 0, FALSE, <<>>)

\* addSampleDiagram: the eight insertions inside one update scope.
addSampleDiagram(g) ==
  endUpdate([beginUpdate(g) EXCEPT !.children = SampleChildren, !.dirty = TRUE])

\* The number of the next id the model generates after the sample diagram.
SampleNextId == 10

\* ------------------------------------------------------------ state
VARIABLES
  styleStr, parsed, formatted, reparsed, stylePc,
  children, view, updateLevel, notified,
  doc, clearExisting, pre, err, begins, ends, exported, convPc,
  isLoading, message, pending, response, accepted, lastOp, aiCalls, aiResolved,
  instance, renderPending, nextId, editedInWait

styleVars == <<styleStr, parsed, formatted, reparsed, stylePc>>
graphVars == <<children, view, updateLevel, notified>>
convVars == <<doc, clearExisting, pre, err, begins, ends, exported, convPc>>
appVars == <<isLoading, message, pending, response, accepted, lastOp, aiCalls,
             aiResolved, instance, renderPending, nextId, editedInWait>>
vars == <<styleVars, graphVars, convVars, appVars>>

\* The graph of the current state, at rest: no edit is open.
TheGraph == Graph(children, view, updateLevel, FALSE, <<>>)

NoDoc == GraphData(None, None)

StyleIdle ==
  /\ styleStr = <<>> /\ parsed = <<>> /\ formatted = <<>> /\ reparsed = <<>>
  /\ stylePc = "idle"

ConvIdle ==
  /\ doc = NoDoc /\ clearExisting = TRUE /\ pre = <<>> /\ err = "none"
  /\ begins = 0 /\ ends = 0 /\ exported = NoDoc /\ convPc = "idle"

ToolbarIdle ==
  /\ isLoading = FALSE /\ message = "none" /\ pending = <<>> /\ response = None
  /\ accepted = FALSE /\ lastOp = "none" /\ aiCalls = 0 /\ aiResolved = 0

\* No canvas is mounted.
AppIdle ==
  /\ ToolbarIdle
  /\ instance = 0 /\ renderPending = FALSE /\ nextId = 0 /\ editedInWait = FALSE

GraphEmpty ==
  /\ children = <<>> /\ view = DefaultView /\ updateLevel = 0 /\ notified = <<>>

\* ------------------------------------------------------------ style codec
StyleInit ==
  /\ styleStr \in StyleStrings
  /\ parsed = <<>> /\ formatted = <<>> /\ reparsed = <<>>
  /\ stylePc = "input"
  /\ GraphEmpty /\ ConvIdle /\ AppIdle

Parse ==
  /\ stylePc = "input"
  /\ parsed' = parseStyle(styleStr)
  /\ stylePc' = "parsed"
  /\ UNCHANGED <<styleStr, formatted, reparsed, graphVars, convVars, appVars>>

Format ==
  /\ stylePc = "parsed"
  /\ formatted' = formatStyle(parsed)
  /\ stylePc' = "formatted"
  /\ UNCHANGED <<styleStr, parsed, reparsed, graphVars, convVars, appVars>>

Reparse ==
  /\ stylePc = "formatted"
  /\ reparsed' = parseStyle(formatted)
  /\ stylePc' = "reparsed"
  /\ UNCHANGED <<styleStr, parsed, formatted, graphVars, convVars, appVars>>

StyleNext == Parse \/ Format \/ Reparse

SpecStyle == StyleInit /\ [][StyleNext]_vars

\* ------------------------------------------------------------ converter
ConvInit ==
  /\ StyleIdle /\ AppIdle
  /\ children \in {<<>>, PriorChildren}
  /\ view = DefaultView /\ updateLevel = 0 /\ notified = <<>>
  /\ doc \in ConvDocs
  /\ clearExisting \in BOOLEAN
  /\ pre = <<>> /\ err = "none" /\ begins = 0 /\ ends = 0
  /\ exported = NoDoc /\ convPc = "ready"

\* One call importGraphFromJSON(graph, doc, clearExisting).
ConvImport ==
  /\ convPc = "ready"
  /\ \E r \in {importGraphFromJSON(TheGraph, doc, clearExisting)} :
         /\ children' = r.g.children
         /\ view' = r.g.view
         /\ updateLevel' = r.g.level
         /\ notified' = r.g.notes
         /\ err' = r.err
         /\ begins' = r.begins
         /\ ends' = r.ends
  /\ pre' = children
  /\ convPc' = "imported"
  /\ UNCHANGED <<doc, clearExisting, exported, styleVars, appVars>>

\* One call exportGraphToJSON(graph).
ConvExport ==
  /\ convPc = "imported"
  /\ exported' = exportGraphToJSON(TheGraph)
  /\ convPc' = "exported"
  /\ UNCHANGED <<doc, clearExisting, pre, err, begins, ends, graphVars, styleVars, appVars>>

\* Documents of later calls in a sequence of imports: one that imports and
\* one that throws.
AgainDocs == {GraphData(Some(<<E1, VA, VB>>), VP1),
              GraphData(Some(<<VA, VBad, VB>>), VP1)}

\* The caller passes another Document to a further call, as importGraphData
\* does: with clearing.
ConvAgain ==
  /\ convPc = "exported"
  /\ doc' \in AgainDocs
  /\ clearExisting' = TRUE
  /\ convPc' = "ready"
  /\ UNCHANGED <<pre, err, begins, ends, exported, graphVars, styleVars, appVars>>

ConvNext == ConvImport \/ ConvExport \/ ConvAgain

SpecConv == ConvInit /\ [][ConvNext]_vars

\* ------------------------------------------------------------ application
\* What handleImport reads from the chosen file: text that JSON.parse rejects,
\* or the parsed value.
File(parses, data) == [parses |-> parses, data |-> data]

FileDocs ==
  { GraphData(Some(<<VA, VB, E1>>), VP1),
    GraphData(Some(<<>>), None),
    GraphData(None, None),
    GraphData(Some(<<VA, VBad, VB>>), None),
    GraphData(Some(<<VA>>), VPBad) }

Files == {File(FALSE, NoDoc)} \cup {File(TRUE, d) : d \in FileDocs}

\* An AIResponse: description is given by its typeof.
AIResponse(diagram, description) == [diagram |-> diagram, description |-> description]

\* What the awaited call can resolve with.  The stub echoes the request's
\* diagram with a description; the service it stands for may answer anything:
\* null, no diagram, a diagram without cells, no description, an empty
\* diagram, a diagram whose import throws.
callAIService(request) ==
  { Some(AIResponse(Some(request.diagram), "string")),
    None,
    Some(AIResponse(None, "string")),
    Some(AIResponse(Some(GraphData(None, None)), "string")),
    Some(AIResponse(Some(request.diagram), "undefined")),
    Some(AIResponse(Some(GraphData(Some(<<>>), None)), "string")),
    Some(AIResponse(Some(GraphData(Some(<<VA, VBad>>), None)), "string")) }

\* validateAIResponse without the Array.isArray test.
validateAIResponseNoCells(resp) ==
  /\ resp # None
  /\ resp[1].diagram # None
  /\ resp[1].description = "string"

validateAIResponse(resp) ==
  /\ resp # None
  /\ resp[1].diagram # None
  /\ resp[1].diagram[1].cells # None
  /\ resp[1].description = "string"

\* The AI button with disabled={isLoading} left out.
AIButtonNeverDisabled == FALSE

\* disabled={isLoading} on the toolbar buttons.
ButtonDisabled == isLoading

\* importGraphData of the canvas handle, importing without clearing.
importGraphDataKeepExisting(g, data) == importGraphFromJSON(g, data, FALSE)

\* importGraphData of the canvas handle: import with clearing.
importGraphData(g, data) == importGraphFromJSON(g, data, TRUE)

\* The canvas after its effect has run for the first time: a new graph with
\* the change listener and the sample diagram.  The listener has handed the
\* sample's Document to onGraphChange, so App has a state update to render.
AppInit ==
  /\ StyleIdle /\ ConvIdle /\ ToolbarIdle
  /\ \E g \in {addSampleDiagram(NewGraph)} :
       /\ children = g.children
       /\ view = g.view
       /\ updateLevel = g.level
       /\ notified = g.notes
       /\ renderPending = (Len(g.notes) > 0)
  /\ instance = 1
  /\ nextId = SampleNextId
  /\ editedInWait = FALSE

\* Write the graph an operation leaves, with the listener's Documents.  Each
\* Document went to onGraphChange, which is App's handleGraphChange:
\* setGraphData(data) with a new object schedules a render of App.
SetGraph(g) ==
  /\ children' = g.children
  /\ view' = g.view
  /\ updateLevel' = g.level
  /\ notified' = g.notes
  /\ renderPending' = (renderPending \/ Len(g.notes) > 0)

\* App renders after setGraphData.  The render makes a new handleGraphChange
\* function, onGraphChange is the dependency of the canvas effect, so the
\* effect's cleanup runs (listeners removed, graph.destroy(), graphRef null)
\* and the effect runs again: a new graph, the listener, graphRef, and
\* addSampleDiagram, whose change the listener reports to the new handler.
RenderApp ==
  /\ renderPending
  /\ instance < MaxMounts
  /\ \E g \in {addSampleDiagram(NewGraph)} :
       /\ children' = g.children
       /\ view' = g.view
       /\ updateLevel' = g.level
       /\ notified' = g.notes
       /\ renderPending' = (Len(g.notes) > 0)
  /\ instance' = instance + 1
  /\ nextId' = SampleNextId
  /\ lastOp' = "render"
  /\ UNCHANGED <<isLoading, message, pending, response, accepted, aiCalls,
                 aiResolved, editedInWait, styleVars, convVars>>

\* The id the model generates for a cell inserted without one: the next
\* number whose spelling no cell of the model carries.
RECURSIVE createId(_, _)
createId(ch, n) ==
  IF \E i \in 1..Len(ch) : ch[i].id = ToString(n) THEN createId(ch, n + 1) ELSE n

\* The positions of the vertices among the children.
VertexPositions(ch) == {i \in 1..Len(ch) : ch[i].vertex}

\* The user drags a connection from the first vertex to the last one
\* (setConnectable(true)): the graph inserts an edge without id or style.
\* The canvas takes edits whatever isLoading is.
ConnectCells ==
  /\ VertexPositions(children) # {}
  /\ nextId < SampleNextId + MaxEdits
  /\ \E n \in {createId(children, nextId)} :
       /\ \E g \in {addCell(TheGraph,
                            MxCell(ToString(n), FALSE, "", Some(ZeroGeo), "",
                                   CHOOSE i \in VertexPositions(children) :
                                     \A j \in VertexPositions(children) : i <= j,
                                   CHOOSE i \in VertexPositions(children) :
                                     \A j \in VertexPositions(children) : i >= j))} :
            SetGraph(g)
       /\ nextId' = n + 1
  /\ editedInWait' = (editedInWait \/ pending # <<>>)
  /\ lastOp' = "edit"
  /\ UNCHANGED <<isLoading, message, pending, response, accepted, aiCalls,
                 aiResolved, instance, styleVars, convVars>>

\* The user edits the label of the first cell in place.
EditLabel ==
  /\ Len(children) > 0
  /\ children[1].value # "Edited"
  /\ \E g \in {endUpdate([beginUpdate(TheGraph) EXCEPT
                            !.children[1].value = "Edited", !.dirty = TRUE])} :
       SetGraph(g)
  /\ editedInWait' = (editedInWait \/ pending # <<>>)
  /\ lastOp' = "edit"
  /\ UNCHANGED <<isLoading, message, pending, response, accepted, aiCalls,
                 aiResolved, instance, nextId, styleVars, convVars>>

\* reader.onload of handleImport: JSON.parse, importGraphData (import with
\* clearing), the success message; any exception gives the failure message.
HandleImport ==
  \E f \in Files :
    /\ lastOp' = "import"
    /\ IF ~f.parses
       THEN /\ message' = "import-failed"
            /\ notified' = <<>>
            /\ UNCHANGED <<children, view, updateLevel, renderPending>>
       ELSE \E r \in {importGraphData(TheGraph, f.data)} :
              /\ SetGraph(r.g)
              /\ message' = IF r.err = "none" THEN "imported" ELSE "import-failed"
    /\ UNCHANGED <<isLoading, pending, response, accepted, aiCalls, aiResolved,
                   instance, nextId, editedInWait, styleVars, convVars>>

\* handleAIProcess up to the await: an empty diagram ends the handler, else
\* the request is sent.
HandleAIProcess ==
  /\ ~ButtonDisabled
  /\ aiCalls < MaxCalls
  /\ lastOp' = "aiProcess"
  /\ \E graphData \in {exportGraphToJSON(TheGraph)} :
         IF Len(graphData.cells[1]) = 0
         THEN /\ message' = "draw-first"
              /\ isLoading' = FALSE
              /\ UNCHANGED <<pending, aiCalls, editedInWait>>
         ELSE /\ isLoading' = TRUE
              /\ pending' = Append(pending, [diagram |-> graphData])
              /\ aiCalls' = aiCalls + 1
              /\ editedInWait' = FALSE
              /\ UNCHANGED message
  /\ notified' = <<>>
  /\ UNCHANGED <<children, view, updateLevel, renderPending, response, accepted,
                 aiResolved, instance, nextId, styleVars, convVars>>

\* handleAIProcess from the await on: validate, import with clearing, the
\* messages, and setIsLoading(false) on every path.
AIResolve ==
  /\ pending # <<>>
  /\ \E resp \in callAIService(Head(pending)) :
       /\ response' = resp
       /\ accepted' = validateAIResponse(resp)
       /\ IF ~validateAIResponse(resp)
          THEN /\ message' = "invalid-response"
               /\ notified' = <<>>
               /\ UNCHANGED <<children, view, updateLevel, renderPending>>
          ELSE \E r \in {importGraphData(TheGraph, resp[1].diagram[1])} :
                 /\ SetGraph(r.g)
                 /\ message' = IF r.err = "none" THEN "ai-success" ELSE "ai-failed"
  /\ pending' = Tail(pending)
  /\ aiResolved' = aiResolved + 1
  /\ isLoading' = FALSE
  /\ lastOp' = "aiResolve"
  /\ UNCHANGED <<aiCalls, instance, nextId, editedInWait, styleVars, convVars>>

\* handleClear, confirmed: the clear method of the canvas.
HandleClear ==
  /\ ~ButtonDisabled
  /\ \E g \in {endUpdate(removeCells(beginUpdate(TheGraph)))} : SetGraph(g)
  /\ message' = "cleared"
  /\ lastOp' = "clear"
  /\ UNCHANGED <<isLoading, pending, response, accepted, aiCalls, aiResolved,
                 instance, nextId, editedInWait, styleVars, convVars>>

\* The timer of showMessage.
MessageTimeout ==
  /\ message # "none"
  /\ message' = "none"
  /\ lastOp' = "messageTimeout"
  /\ UNCHANGED <<isLoading, pending, response, accepted, aiCalls, aiResolved,
                 instance, renderPending, nextId, editedInWait,
                 graphVars, styleVars, convVars>>

\* The toolbar at work: its handlers and timers, and the renders of App.
Next ==
  \/ HandleImport \/ HandleAIProcess \/ AIResolve \/ HandleClear \/ MessageTimeout
  \/ RenderApp

Init == AppInit

Spec == Init /\ [][Next]_vars

\* The timer of the awaited call fires.
FairSpec == Spec /\ WF_vars(AIResolve)

\* The canvas at work: the user edits the diagram and asks for the AI
\* processing, while App renders.
CanvasNext ==
  \/ ConnectCells \/ EditLabel \/ HandleAIProcess \/ AIResolve \/ RenderApp

SpecCanvas == Init /\ [][CanvasNext]_vars


\* ------------------------------------------------------------ claims: style codec
\* A well-formed segment: one '=', with a key and a value that are not blank.
WellFormedSeg(seg) ==
  LET pieces == Split(seg, Eq)
  IN  Len(pieces) = 2 /\ Trim(pieces[1]) # <<>> /\ Trim(pieces[2]) # <<>>

WellFormed(s) ==
  LET segs == Split(s, Semi) IN \A i \in 1..Len(segs) : WellFormedSeg(segs[i])

\* C4: for a style string s of well-formed key=value segments joined by ';',
\* parseStyle(formatStyle(parseStyle(s))) is the same mapping as parseStyle(s):
\* the same keys with the same values of the same type.
StyleCodecIdempotent ==
  (stylePc = "reparsed" /\ WellFormed(styleStr)) => Mapping(reparsed) = Mapping(parsed)

\* A well-formed string of two keys, one of them a number that formatStyle
\* spells differently from the input, has been parsed, formatted and parsed again.
StyleCodecWitness ==
  /\ stylePc = "reparsed" /\ WellFormed(styleStr)
  /\ Len(parsed) = 2
  /\ \E i \in 1..Len(parsed) : parsed[i].v.t = "number"
  /\ formatted # styleStr

\* The parse the claim describes: the key is the text before the first '=' of
\* a segment, the value all the text after it.
FirstEq(part) ==
  IF \E i \in 1..Len(part) : part[i] = Eq
  THEN CHOOSE i \in 1..Len(part) : part[i] = Eq /\ \A j \in 1..(i - 1) : part[j] # Eq
  ELSE 0

RECURSIVE firstEqParts(_, _)
firstEqParts(parts, style) ==
  IF Len(parts) = 0 THEN style
  ELSE LET i == FirstEq(parts[1])
           key == IF i = 0 THEN parts[1] ELSE SubSeq(parts[1], 1, i - 1)
           value == IF i = 0 THEN UndefStr ELSE SubSeq(parts[1], i + 1, Len(parts[1]))
           next == IF Truthy(key) /\ Truthy(value)
                   THEN SetKey(style, Trim(key), parseStyleValue(Trim(value)))
                   ELSE style
       IN  firstEqParts(Tail(parts), next)

\* C5: parseStyle splits on ';' and splits each segment on its first '=' only:
\* the value is all the text after the first '=' ('k=a=b' gives k the value
\* 'a=b'); a segment that lacks a key or a value is dropped.
ParseSplitsOnFirstEquals ==
  stylePc # "input" =>
    parsed = (IF styleStr = <<>> THEN <<>>
              ELSE firstEqParts(Split(styleStr, Semi), <<>>))

\* ------------------------------------------------------------ claims: converter
Range(q) == {q[i] : i \in 1..Len(q)}

VertexIds(cells) == {c.id : c \in {x \in Range(cells) : x.type = "vertex"}}

\* A GraphCell with its style as a mapping.
CellView(c) == [c EXCEPT !.style = Mapping(c.style[1])]

CellViews(d) == {CellView(c) : c \in Range(d.cells[1])}

\* The Documents of the round trip: every edge has a source and a target
\* among the vertex ids (the ids of ValidDocs are unique).
EndpointsPresent(d) ==
  \A c \in Range(d.cells[1]) :
    c.type = "edge" =>
      c.source \in VertexIds(d.cells[1]) /\ c.target \in VertexIds(d.cells[1])

\* C1: for a Document D with unique ids and every edge endpoint among its
\* vertex ids, import with clearing followed by export returns D's cells field
\* for field (in any order) and D's viewport.  A Document without a viewport
\* puts no requirement on the exported one.
RoundTrip ==
  (convPc = "exported" /\ clearExisting /\ doc \in ValidDocs /\ EndpointsPresent(doc))
    => /\ CellViews(exported) = CellViews(doc)
       /\ doc.viewport # None => exported.viewport = doc.viewport

\* The connected edges of a live model: id, source id, target id.
ConnectedEdges(ch) ==
  { <<ch[i].id, ch[ch[i].source].id, ch[ch[i].target].id>> :
      i \in {j \in 1..Len(ch) : ch[j].edge /\ ch[j].source >= 1 /\ ch[j].target >= 1} }

Reorderings(q) ==
  { [i \in 1..Len(q) |-> q[f[i]]] :
      f \in {g \in [1..Len(q) -> 1..Len(q)] : \A i, j \in 1..Len(q) : i # j => g[i] # g[j]} }

\* The model before the last import.
PreGraph == Graph(pre, DefaultView, 0, FALSE, <<>>)

\* C2: the import creates all vertices before any edge: every edge of the
\* Document whose source and target are vertex ids is connected to live
\* vertices with those ids wherever it stands in the array, and the connected
\* edges are the same for every permutation of cells.
TwoPassOrderIndependent ==
  (convPc = "imported" /\ doc \in ValidDocs /\ pre \in {<<>>, PriorChildren}) =>
    /\ \A c \in Range(doc.cells[1]) :
         (/\ c.type = "edge"
          /\ c.source \in VertexIds(doc.cells[1])
          /\ c.target \in VertexIds(doc.cells[1]))
         => <<c.id, c.source, c.target>> \in ConnectedEdges(children)
    /\ \A q \in Reorderings(doc.cells[1]) :
         ConnectedEdges(importGraphFromJSON(PreGraph, GraphData(Some(q), doc.viewport),
                                            clearExisting).g.children)
           = ConnectedEdges(children)

\* An edge that the import is to skip: no source, no target, or one that is
\* not the id of a vertex of the Document.
Dangling(c, d) ==
  /\ c.type = "edge"
  /\ \/ c.source \notin VertexIds(d.cells[1])
     \/ c.target \notin VertexIds(d.cells[1])

ExportedIds == {c.id : c \in Range(exported.cells[1])}

\* C3: an edge whose source or target is missing or is no vertex id of the
\* Document is skipped without an error, every other cell is imported, and the
\* skipped edge's id is not among the exported cells.
DanglingEdgeSkipped ==
  (convPc = "exported" /\ doc \in ValidDocs /\ pre \in {<<>>, PriorChildren}) =>
    /\ err = "none"
    /\ \A c \in Range(doc.cells[1]) :
         IF Dangling(c, doc) THEN c.id \notin ExportedIds ELSE c.id \in ExportedIds

\* The cells that the last import left of the earlier ones, and those it added.
KeptCount == IF clearExisting THEN 0 ELSE Len(pre)
ClearedCount == IF clearExisting THEN Len(pre) ELSE 0
Created == SubSeq(children, KeptCount + 1, Len(children))
IdsOf(q) == [i \in 1..Len(q) |-> q[i].id]

IsVertexData(c) == c.type = "vertex"

\* The vertices that do not follow the interface: the first pass throws there.
BadVertices(cells) ==
  {i \in 1..Len(cells) :
     cells[i].type = "vertex" /\ (cells[i].geometry = None \/ cells[i].style = None)}

FirstOf(S) == CHOOSE i \in S : \A j \in S : i <= j

\* What a call that threw has left applied: the clearing, and the cells
\* created before the exception.
PartialApplied ==
  /\ SubSeq(children, 1, KeptCount) = SubSeq(pre, 1, KeptCount)
  /\ IF doc.cells = None THEN Created = <<>>
     ELSE IF BadVertices(doc.cells[1]) # {}
     THEN IdsOf(Created) =
            IdsOf(SelectSeq(SubSeq(doc.cells[1], 1, FirstOf(BadVertices(doc.cells[1])) - 1),
                            IsVertexData))
     ELSE /\ VertexIds(doc.cells[1]) \subseteq Range(IdsOf(Created))
          /\ (doc.viewport # None /\ doc.viewport[1].translate = None)
               => view.scale = doc.viewport[1].scale

\* C8: every call of importGraphFromJSON makes one beginUpdate and one
\* endUpdate, also when a vertex insertion, an edge insertion or the viewport
\* restore throws: after any sequence of calls the update depth is back at its
\* value before, and what was changed before an exception stays changed.
UpdateScopeClosed ==
  /\ updateLevel = 0
  /\ convPc \in {"imported", "exported"} =>
       /\ begins = 1 /\ ends = 1
       /\ err # "none" => PartialApplied

\* A call with clearing has thrown after it removed the earlier cells and
\* created one or more new ones.
UpdateScopeWitness ==
  /\ convPc = "imported" /\ err = "TypeError"
  /\ clearExisting /\ Len(pre) > 0
  /\ Len(children) > 0
  /\ updateLevel = 0

\* C9 as claimed: one call of importGraphFromJSON that returns notifies the
\* change listener exactly once, after the outermost endUpdate, and the
\* Document the listener exports is the one of the model as the call leaves it.
NotifiedExactlyOnce ==
  (convPc = "imported" /\ err = "none") =>
    Len(notified) = 1 /\ notified[1] = exportGraphToJSON(TheGraph)

NotifiedIds == {c.id : c \in Range(notified[1].cells[1])}

\* C9: a call of importGraphFromJSON that clears or creates at least one cell
\* notifies the change listener exactly once, after the outermost endUpdate:
\* the Document it exports is the one of the model as the call leaves it, with
\* every created cell and no cleared one.  A call that changes no cell does
\* not notify the listener.
SingleCombinedChange ==
  convPc = "imported" =>
    IF ClearedCount + Len(Created) > 0
    THEN /\ Len(notified) = 1
         /\ notified[1] = exportGraphToJSON(TheGraph)
         /\ Range(IdsOf(Created)) \subseteq NotifiedIds
         /\ (clearExisting /\ doc.cells # None) =>
              (Range(IdsOf(pre)) \ Range(IdsOf(doc.cells[1]))) \cap NotifiedIds = {}
    ELSE notified = <<>>

\* A call has cleared three cells and created two vertices and an edge.
SingleCombinedChangeWitness ==
  /\ convPc = "imported" /\ err = "none"
  /\ clearExisting /\ Len(pre) = 3
  /\ Len(Created) = 3 /\ \E i \in 1..3 : children[i].edge /\ children[i].source >= 1
  /\ Len(notified) = 1

\* ------------------------------------------------------------ claims: application
\* The three conditions of the validation contract.
ShapeAccepted(resp) ==
  /\ resp # None
  /\ resp[1].diagram # None
  /\ resp[1].diagram[1].cells # None
  /\ resp[1].description = "string"

\* C6: validateAIResponse accepts a response if and only if its diagram is
\* present, diagram.cells is an array and description is a string:
\* {diagram:{cells:[]}, description:'ok'} is accepted, {diagram:{},
\* description:'ok'} and {description:'ok'} are rejected; a rejected response
\* gives the invalid-response message and the model is left as it was.
ResponseValidated ==
  /\ [](lastOp = "aiResolve" =>
          /\ accepted <=> ShapeAccepted(response)
          /\ response = Some(AIResponse(Some(GraphData(Some(<<>>), None)), "string"))
               => accepted
          /\ response = Some(AIResponse(Some(GraphData(None, None)), "string"))
               => ~accepted
          /\ response = Some(AIResponse(None, "string")) => ~accepted)
  /\ [][(lastOp' = "aiResolve" /\ ~accepted') =>
          /\ message' = "invalid-response"
          /\ UNCHANGED <<children, view, updateLevel>>
          /\ notified' = <<>>]_vars

\* The response {diagram:{}, description:'ok'} has been rejected.
ResponseRejectedWitness ==
  /\ lastOp = "aiResolve"
  /\ response = Some(AIResponse(Some(GraphData(None, None)), "string"))
  /\ ~accepted
  /\ message = "invalid-response"
  /\ children = SampleChildren

\* C7: a file import that ends with the import-failure message leaves the
\* cells of the live model exactly as they were before the import.
FailedImportLeavesModel ==
  [][(lastOp' = "import" /\ message' = "import-failed") => children' = children]_vars

\* C10: at most one request is unresolved at any time, isLoading is true
\* exactly while it is, every request resolves once and none is retried or
\* dropped, and on every exit path isLoading is set back to false.
SingleInFlightRequest ==
  /\ [](/\ Len(pending) <= 1
        /\ isLoading <=> Len(pending) = 1
        /\ aiCalls = aiResolved + Len(pending))
  /\ [][/\ aiResolved' \in {aiResolved, aiResolved + 1}
        /\ Len(pending') < Len(pending) => aiResolved' = aiResolved + 1]_vars
  /\ (isLoading ~> ~isLoading)

\* A second request is in flight after the import of the first response threw.
SingleInFlightWitness ==
  /\ aiResolved = 1 /\ message = "ai-failed"
  /\ Len(pending) = 1 /\ isLoading

\* ------------------------------------------------------------ claims: canvas
\* C11: the live model is long-lived across change notifications: the render
\* of App that follows a notified change does not destroy and re-create the
\* graph, so the graph created at mount stays the one in graphRef (there is
\* only ever the first instance, and the sample diagram is added once), the
\* render keeps the cells the graph holds, and after it no further render is
\* pending: the system is quiescent.
LiveModelLongLived ==
  /\ [](instance <= 1)
  /\ [][lastOp' = "render" =>
          /\ instance' = instance
          /\ children' = children
          /\ ~renderPending']_vars

\* The Document snapshot of the oldest unresolved request.
Snapshot == Head(pending).diagram

\* The cells of a Document that an import creates: vertices, and edges with a
\* source and a target.
ImportableIds(d) ==
  {c.id : c \in {x \in Range(d.cells[1]) :
                   x.type = "vertex" \/ (TruthyId(x.source) /\ TruthyId(x.target))}}

====
